---- MODULE Spec2Model ----
(***************************************************************************)
(* A model of the einstein command (src/einstein.go): the transform        *)
(* pipeline of Kite, the Point/Facet/Quad/Box primitives and the loop of   *)
(* main that renders and prints the sixteen solids.                        *)
(*                                                                         *)
(* Arithmetic.  The program computes in float64.  Every quantity it        *)
(* computes from its table is an element of the field Q(sqrt 3): the       *)
(* rotations are multiples of 60 degrees, cos30 = sqrt(3)/2, sin30 = 1/2.  *)
(* The model computes these quantities exactly: a number is a triple       *)
(* <<a, b, d>> of integers with d > 0 that stands for (a + b*sqrt(3))/d,   *)
(* kept in lowest terms.  Rounding error of float64 is not modelled.       *)
(***************************************************************************)
EXTENDS Integers, Sequences, FiniteSets, TLC

-----------------------------------------------------------------------------
(* Exact arithmetic in Q(sqrt 3), standing for the float64 operations.     *)

Abs(n) == IF n < 0 THEN -n ELSE n

RECURSIVE GCD(_, _)
GCD(m, n) == IF n = 0 THEN m ELSE GCD(n, m % n)

\* The element of a one-element set.  The arithmetic below binds each operand
\* as the element of a one-element set, so that an operand that is itself an
\* expression is evaluated once.
Only(S) == CHOOSE r \in S : TRUE

\* (a + b*sqrt(3))/d in lowest terms.
Reduce(t) ==
    LET g == GCD(GCD(Abs(t[1]), Abs(t[2])), t[3])
    IN  <<t[1] \div g, t[2] \div g, t[3] \div g>>

Num(a, b, d) == Only({Reduce(t) : t \in {<<a, b, d>>}})

FromInt(n) == <<n, 0, 1>>
Zero == FromInt(0)
One == FromInt(1)

Neg(x) == Only({<<-t[1], -t[2], t[3]>> : t \in {x}})

Add(x, y) ==
    Only({ LET g == GCD(p[3], q[3])
               m == q[3] \div g
               n == p[3] \div g
           IN  Num(p[1] * m + q[1] * n, p[2] * m + q[2] * n, p[3] * m) :
           p \in {x}, q \in {y} })

Sub(x, y) == Add(x, Neg(y))

\* The factors are cancelled against the denominators before multiplying.
Mul(x, y) ==
    Only({ LET g == GCD(GCD(Abs(p[1]), Abs(p[2])), q[3])
               h == GCD(GCD(Abs(q[1]), Abs(q[2])), p[3])
               a == p[1] \div g
               b == p[2] \div g
               c == q[1] \div h
               d == q[2] \div h
           IN  Num(a * c + 3 * b * d, a * d + b * c, (p[3] \div h) * (q[3] \div g)) :
           p \in {x}, q \in {y} })

SgnInt(n) == IF n > 0 THEN 1 ELSE IF n < 0 THEN -1 ELSE 0

\* The sign of (a + b*sqrt(3))/d, d > 0: -1, 0 or 1.
Sgn(x) ==
    Only({ LET g == GCD(Abs(t[1]), Abs(t[2]))
               a == IF g = 0 THEN 0 ELSE t[1] \div g
               b == IF g = 0 THEN 0 ELSE t[2] \div g
           IN  IF a >= 0 /\ b >= 0 THEN SgnInt(a + b)
               ELSE IF a <= 0 /\ b <= 0 THEN -1
               ELSE IF a > 0 THEN SgnInt(a * a - 3 * b * b)
               ELSE SgnInt(3 * b * b - a * a) :
           t \in {x} })

Less(x, y) == Sgn(Sub(x, y)) < 0

-----------------------------------------------------------------------------
(* Package-level values, lines 19-35.                                      *)

unit == 12

sqrt3 == <<0, 1, 1>>
cos30 == <<0, 1, 2>>
sin30 == <<1, 0, 2>>

\* inset = 0.03, a fraction of a unit.
inset == <<3, 0, 100>>

\* math.Cos and math.Sin of float64(rotationDegrees)/rad, for the angles
\* that are multiples of 30 degrees.
CosStep(k) ==
    CASE k = 0 -> One
      [] k = 1 \/ k = 11 -> <<0, 1, 2>>
      [] k = 2 \/ k = 10 -> <<1, 0, 2>>
      [] k = 3 \/ k = 9 -> Zero
      [] k = 4 \/ k = 8 -> <<-1, 0, 2>>
      [] k = 5 \/ k = 7 -> <<0, -1, 2>>
      [] k = 6 -> FromInt(-1)

CosDeg(deg) == CosStep((deg % 360) \div 30)
SinDeg(deg) == CosStep(((deg - 90) % 360) \div 30)

\* The table of placements, lines 42-75 (index 1..8 for kites[0..7]).
kites ==
    << [pos |-> <<Zero, Zero>>, rot |-> -60],
       [pos |-> <<Zero, Zero>>, rot |-> -120],
       [pos |-> <<Zero, Zero>>, rot |-> -180],
       [pos |-> <<Zero, Zero>>, rot |-> -240],
       [pos |-> <<Zero, Mul(FromInt(-2), sqrt3)>>, rot |-> 60],
       [pos |-> <<Zero, Mul(FromInt(-2), sqrt3)>>, rot |-> 120],
       [pos |-> <<FromInt(-3), Neg(sqrt3)>>, rot |-> -60],
       [pos |-> <<FromInt(-3), Neg(sqrt3)>>, rot |-> 0] >>

-----------------------------------------------------------------------------
(* Point, Facet, Quad, Box: lines 166-260.  A Point is <<x, y, z>>, a      *)
(* Facet a triple of Points, a Quad a 4-tuple of Points, a Box a pair of   *)
(* Quads; all are indexed from 1 where the code indexes from 0.            *)

PointSub(p, q) == <<Sub(p[1], q[1]), Sub(p[2], q[2]), Sub(p[3], q[3])>>

\* Facet.Normal.  The code returns (nx, ny, nz)/norm with
\* norm = sqrt(nx^2 + ny^2 + nz^2).  The model keeps the cross product n,
\* of which the returned vector is the positive multiple 1/norm, and the
\* flag nan that tells norm = 0, where every component is 0/0 = NaN.
Normal(f) ==
    Only({ Only({ [n |-> <<nx, ny, nz>>,
                   nan |-> Sgn(nx) = 0 /\ Sgn(ny) = 0 /\ Sgn(nz) = 0] :
                  nx \in {Sub(Mul(u[2], v[3]), Mul(u[3], v[2]))},
                  ny \in {Sub(Mul(u[3], v[1]), Mul(u[1], v[3]))},
                  nz \in {Sub(Mul(u[1], v[2]), Mul(u[2], v[1]))} }) :
           u \in {PointSub(f[2], f[1])},
           v \in {PointSub(f[3], f[1])} })

\* The float64 comparisons Normal().z >= 0 and Normal().z <= 0: false on NaN.
NormalZGeqZero(f) == \E N \in {Normal(f)} : ~N.nan /\ Sgn(N.n[3]) >= 0
NormalZLeqZero(f) == \E N \in {Normal(f)} : ~N.nan /\ Sgn(N.n[3]) <= 0

\* Faulty variants of Quad.Facets: the second triangle wound the other way, and the
\* second triangle cut along the other diagonal.
QuadFacetsFlipped(q) == << <<q[1], q[2], q[3]>>, <<q[3], q[1], q[4]>> >>

QuadFacetsFan(q) == << <<q[1], q[2], q[3]>>, <<q[3], q[4], q[2]>> >>

\* Quad.Facets
QuadFacets(q) == << <<q[1], q[2], q[3]>>, <<q[3], q[4], q[1]>> >>

NewQuad(c0, c1, c2, c3, c4, c5, c6, c7, c8, c9, c10, c11) ==
    << <<c0, c1, c2>>, <<c3, c4, c5>>, <<c6, c7, c8>>, <<c9, c10, c11>> >>

\* Faulty variant of NewBox: the top quad checked before the bottom quad.
NewBoxTopFirst(q0, q1) ==
    IF NormalZLeqZero(QuadFacets(q1)[1])
    THEN [fatal |-> "bad top normal", box |-> <<>>]
    ELSE IF NormalZGeqZero(QuadFacets(q0)[1])
    THEN [fatal |-> "bad bottom normal", box |-> <<>>]
    ELSE [fatal |-> "", box |-> <<q0, q1>>]

\* NewBox: fatal is the message of log.Fatal, "" when the Box is returned.
NewBox(q0, q1) ==
    IF NormalZGeqZero(QuadFacets(q0)[1])
    THEN [fatal |-> "bad bottom normal", box |-> <<>>]
    ELSE IF NormalZLeqZero(QuadFacets(q1)[1])
    THEN [fatal |-> "bad top normal", box |-> <<>>]
    ELSE [fatal |-> "", box |-> <<q0, q1>>]

\* Faulty variant of the side quads: side quad i as (bottom[i], bottom[i+1],
\* top[i+1], top[i]), pairing the quads index by index.
SideQuadsByIndex(b) ==
    LET bottom == b[1]
        top == b[2]
    IN  << <<bottom[1], bottom[2], top[2], top[1]>>,
           <<bottom[2], bottom[3], top[3], top[2]>>,
           <<bottom[3], bottom[4], top[4], top[3]>>,
           <<bottom[4], bottom[1], top[1], top[4]>> >>

\* Faulty variant of the side quads: the first side quad in the order
\* (bottom edge, then top edge), the others as the code has them.
SideQuadsFirstForward(b) ==
    LET top == b[1]
        bot == b[2]
    IN  << <<top[1], top[2], bot[4], bot[1]>>,
           <<bot[4], bot[3], top[3], top[2]>>,
           <<bot[3], bot[2], top[4], top[3]>>,
           <<bot[2], bot[1], top[1], top[4]>> >>

\* The four side quads of Box.Facets, in the order the code builds them.
\* The code's local top is b[0] and its local bot is b[1].
SideQuads(b) ==
    LET top == b[1]
        bot == b[2]
    IN  << <<bot[1], bot[4], top[2], top[1]>>,
           <<bot[4], bot[3], top[3], top[2]>>,
           <<bot[3], bot[2], top[4], top[3]>>,
           <<bot[2], bot[1], top[1], top[4]>> >>

\* Box.Facets: the 12 facets f[0..11] as a sequence 1..12.
BoxFacets(b) ==
    LET top == b[1]
        bot == b[2]
        s == SideQuads(b)
    IN  QuadFacets(top) \o QuadFacets(bot)
          \o QuadFacets(s[1]) \o QuadFacets(s[2])
          \o QuadFacets(s[3]) \o QuadFacets(s[4])

-----------------------------------------------------------------------------
(* Kite, lines 99-164.  v is the sequence of the four footprint vertices   *)
(* <<x, y>>: v[1..4] stand for (x0,y0) .. (x3,y3).                         *)

\* Lines 101-104: the kite before any transform.
Footprint ==
    << <<Zero, Zero>>,
       <<Zero, sqrt3>>,
       <<One, sqrt3>>,
       <<Mul(sqrt3, cos30), Mul(sqrt3, sin30)>> >>

\* Faulty variant of the deflate stage: the translation without the scaling.
DeflateNoScale(v, ins) ==
    IF Sgn(ins) > 0
    THEN LET dx == Mul(ins, sin30)
             dy == Mul(ins, cos30)
         IN  << <<Add(v[1][1], dx), Add(v[1][2], dy)>>,
                <<Add(v[2][1], dx), Add(v[2][2], dy)>>,
                <<Add(v[3][1], dx), Add(v[3][2], dy)>>,
                <<Add(v[4][1], dx), Add(v[4][2], dy)>> >>
    ELSE v

\* Lines 106-119.
Deflate(v, ins) ==
    IF Sgn(ins) > 0
    THEN LET deflate == Sub(One, ins)
             dx == Mul(ins, sin30)
             dy == Mul(ins, cos30)
         IN  << <<Add(Mul(v[1][1], deflate), dx), Add(Mul(v[1][2], deflate), dy)>>,
                <<Add(Mul(v[2][1], deflate), dx), Add(Mul(v[2][2], deflate), dy)>>,
                <<Add(Mul(v[3][1], deflate), dx), Add(Mul(v[3][2], deflate), dy)>>,
                <<Add(Mul(v[4][1], deflate), dx), Add(Mul(v[4][2], deflate), dy)>> >>
    ELSE v

\* Lines 121-125.
Scale(v) ==
    LET u == FromInt(unit)
    IN  << <<Mul(v[1][1], u), Mul(v[1][2], u)>>,
           <<Mul(v[2][1], u), Mul(v[2][2], u)>>,
           <<Mul(v[3][1], u), Mul(v[3][2], u)>>,
           <<Mul(v[4][1], u), Mul(v[4][2], u)>> >>

\* Lines 127-136.
Rotate(v, rotationDegrees) ==
    LET sin == SinDeg(rotationDegrees)
        cos == CosDeg(rotationDegrees)
    IN  << <<Sub(Mul(v[1][1], cos), Mul(v[1][2], sin)),
             Add(Mul(v[1][1], sin), Mul(v[1][2], cos))>>,
           <<Sub(Mul(v[2][1], cos), Mul(v[2][2], sin)),
             Add(Mul(v[2][1], sin), Mul(v[2][2], cos))>>,
           <<Sub(Mul(v[3][1], cos), Mul(v[3][2], sin)),
             Add(Mul(v[3][1], sin), Mul(v[3][2], cos))>>,
           <<Sub(Mul(v[4][1], cos), Mul(v[4][2], sin)),
             Add(Mul(v[4][1], sin), Mul(v[4][2], cos))>> >>

\* Lines 138-143.
Translate(v, loc) ==
    LET dx == Mul(loc[1], FromInt(unit))
        dy == Mul(loc[2], FromInt(unit))
    IN  << <<Add(v[1][1], dx), Add(v[1][2], dy)>>,
           <<Add(v[2][1], dx), Add(v[2][2], dy)>>,
           <<Add(v[3][1], dx), Add(v[3][2], dy)>>,
           <<Add(v[4][1], dx), Add(v[4][2], dy)>> >>

\* Lines 145-148.
Reflect(v, refl) ==
    IF refl
    THEN << <<Neg(v[4][1]), v[4][2]>>, <<Neg(v[3][1]), v[3][2]>>,
            <<Neg(v[2][1]), v[2][2]>>, <<Neg(v[1][1]), v[1][2]>> >>
    ELSE v

\* The vertices after the whole pipeline, lines 101-148.
KiteVertices(loc, rotationDegrees, ins, refl) ==
    Only({ Reflect(translated, refl) :
           translated \in { Translate(rotated, loc) :
           rotated \in { Rotate(scaled, rotationDegrees) :
           scaled \in { Scale(deflated) :
           deflated \in { Deflate(Footprint, ins) } } } } })

\* Faulty variant of the height: the inset left out.
HeightNoInset(ins) == Mul(<<1, 0, 5>>, FromInt(unit))

\* Line 156.
Height(ins) == Mul(Add(<<1, 0, 5>>, ins), FromInt(unit))

\* Lines 150-155.
BottomQuad(v) ==
    NewQuad(v[1][1], v[1][2], Zero,
            v[2][1], v[2][2], Zero,
            v[3][1], v[3][2], Zero,
            v[4][1], v[4][2], Zero)

\* Faulty variant of the top quad: the vertices in the order of the bottom quad.
TopQuadForward(v, height) ==
    NewQuad(v[1][1], v[1][2], height,
            v[2][1], v[2][2], height,
            v[3][1], v[3][2], height,
            v[4][1], v[4][2], height)

\* Lines 157-162.
TopQuad(v, height) ==
    NewQuad(v[1][1], v[1][2], height,
            v[4][1], v[4][2], height,
            v[3][1], v[3][2], height,
            v[2][1], v[2][2], height)

\* The two quads Kite passes to NewBox.
KiteQuads(loc, rotationDegrees, ins, refl) ==
    Only({ <<BottomQuad(v), TopQuad(v, height)>> :
           v \in {KiteVertices(loc, rotationDegrees, ins, refl)},
           height \in {Height(ins)} })

Kite(loc, rotationDegrees, ins, refl) ==
    Only({ NewBox(q[1], q[2]) : q \in {KiteQuads(loc, rotationDegrees, ins, refl)} })

-----------------------------------------------------------------------------
(* The program: main and render, lines 77-95.                              *)

VARIABLES
    reflect,    \* the -r flag, fixed once flag.Parse has run
    pc,         \* where main is: "base", "inset", "facets", "done", "fatal"
    i,          \* the loop index of main, 0..8
    name,       \* the name render was called with, <<"kite" | "kite-inset", i>>
    b,          \* render's strings.Builder, as a sequence of records
    stl,        \* render's stl, the Box returned by Kite
    fi,         \* the number of facets of stl.Facets() written to b
    stdout,     \* what main has printed: one element for each Println
    \* One call of Quad.Facets on a quad drawn from a bounded set:
    qsrc,       \* the quad: a plane and four grid points of it
    qf,         \* the result of Facets(), <<>> before the call
    \* One call of NewBox on two quads drawn from a bounded set:
    nbBot,      \* the first argument q0
    nbTop,      \* the second argument q1
    nbRes,      \* the outcome of NewBox, <<>> before the call
    \* Two calls of Kite that differ in the inset alone:
    kLoc,       \* loc
    kRot,       \* rotationDegrees
    kRefl,      \* reflect
    kInsA,      \* inset of the first call
    kInsB,      \* inset of the second call
    kA,         \* the first call: the quads passed to NewBox and its outcome
    kB          \* the second call

mainVars == <<reflect, pc, i, name, b, stl, fi, stdout>>
quadVars == <<qsrc, qf>>
newBoxVars == <<nbBot, nbTop, nbRes>>
kiteVars == <<kLoc, kRot, kRefl, kInsA, kInsB, kA, kB>>
vars == <<mainVars, quadVars, newBoxVars, kiteVars>>

NumKites == Len(kites)

\* fmt.Fprintf(&b, "solid %s\n\n", name)
Header(n) == [kind |-> "solid", name |-> n]

\* Facet.String: the normal line and the three vertex lines of a record.
\* The "%.6e" formatting of the coordinates is not modelled.
FacetString(f) == [kind |-> "facet", normal |-> Normal(f), vertex |-> f]

MainInit ==
    /\ reflect \in BOOLEAN
    /\ pc = "base"
    /\ i = 0
    /\ name = <<>>
    /\ b = <<>>
    /\ stl = <<>>
    /\ fi = 0
    /\ stdout = <<>>

\* main calls render, which writes the header and calls Kite (lines 82-83,
\* 88-90).  log.Fatal in NewBox ends the process.
Render ==
    /\ pc \in {"base", "inset"}
    /\ \E r \in {Kite(kites[i + 1].pos, kites[i + 1].rot,
                      IF pc = "base" THEN Zero ELSE inset, reflect)} :
         /\ name' = <<IF pc = "base" THEN "kite" ELSE "kite-inset", i>>
         /\ IF r.fatal # ""
            THEN /\ pc' = "fatal"
                 /\ UNCHANGED <<b, stl, fi>>
            ELSE /\ pc' = "facets"
                 /\ b' = <<Header(name')>>
                 /\ stl' = r.box
                 /\ fi' = 0
    /\ UNCHANGED <<reflect, i, stdout>>

\* One iteration of the loop of render over stl.Facets() (lines 91-93).
WriteFacet ==
    /\ pc = "facets"
    /\ fi < Len(BoxFacets(stl))
    /\ b' = Append(b, FacetString(BoxFacets(stl)[fi + 1]))
    /\ fi' = fi + 1
    /\ UNCHANGED <<reflect, pc, i, name, stl, stdout>>

\* Faulty variant of the loop of main: the inset solid of each placement skipped.
PrintlnNoInset ==
    /\ pc = "facets"
    /\ fi = Len(BoxFacets(stl))
    /\ stdout' = Append(stdout, b)
    /\ i' = i + 1
    /\ pc' = IF i + 1 < NumKites THEN "base" ELSE "done"
    /\ UNCHANGED <<reflect, name, b, stl, fi>>

\* render returns b.String() and main prints it (lines 94, 82-83); the loop
\* of main goes on, and main returns after the last placement.
Println ==
    /\ pc = "facets"
    /\ fi = Len(BoxFacets(stl))
    /\ stdout' = Append(stdout, b)
    /\ IF name[1] = "kite"
       THEN pc' = "inset" /\ i' = i
       ELSE /\ i' = i + 1
            /\ pc' = IF i + 1 < NumKites THEN "base" ELSE "done"
    /\ UNCHANGED <<reflect, name, b, stl, fi>>


-----------------------------------------------------------------------------
(* The values the variables of a specification keep while another          *)
(* specification runs.                                                     *)

MainIdle ==
    /\ reflect = FALSE
    /\ pc = "off"
    /\ i = 0
    /\ name = <<>>
    /\ b = <<>>
    /\ stl = <<>>
    /\ fi = 0
    /\ stdout = <<>>

QuadIdle == qsrc = <<>> /\ qf = <<>>

NewBoxIdle == nbBot = <<>> /\ nbTop = <<>> /\ nbRes = <<>>

KiteIdle ==
    /\ kLoc = <<>>
    /\ kRot = 0
    /\ kRefl = FALSE
    /\ kInsA = Zero
    /\ kInsB = Zero
    /\ kA = <<>>
    /\ kB = <<>>

-----------------------------------------------------------------------------
(* Spec: a run of the program.                                             *)

Init == MainInit /\ QuadIdle /\ NewBoxIdle /\ KiteIdle

Next ==
    \/ Render /\ UNCHANGED <<quadVars, newBoxVars, kiteVars>>
    \/ WriteFacet /\ UNCHANGED <<quadVars, newBoxVars, kiteVars>>
    \/ Println /\ UNCHANGED <<quadVars, newBoxVars, kiteVars>>

Spec == Init /\ [][Next]_vars

\* main is sequential code: a step that can be taken is taken.
FairSpec == Spec /\ WF_vars(Next)

-----------------------------------------------------------------------------
(* SpecQuad: Quad.Facets applied to a quad whose vertices are points of a  *)
(* grid in one of the three coordinate planes.                             *)

MaxCoord == 2

Planes == {"xy", "xz", "yz"}

\* The point of the plane pl with the integer plane coordinates p.
Embed(pl, p) ==
    CASE pl = "xy" -> <<FromInt(p[1]), FromInt(p[2]), Zero>>
      [] pl = "xz" -> <<FromInt(p[1]), Zero, FromInt(p[2])>>
      [] pl = "yz" -> <<Zero, FromInt(p[1]), FromInt(p[2])>>

Grid2 == (0..MaxCoord) \X (0..MaxCoord)

\* The Quad that qsrc describes.
QuadOf(src) == [k \in 1..4 |-> Embed(src.plane, src.pts[k])]

QuadInit ==
    /\ qsrc \in [plane : Planes, pts : Grid2 \X Grid2 \X Grid2 \X Grid2]
    /\ qf = <<>>

CallFacets ==
    /\ qf = <<>>
    /\ qf' = QuadFacets(QuadOf(qsrc))
    /\ UNCHANGED qsrc

InitQuad == QuadInit /\ MainIdle /\ NewBoxIdle /\ KiteIdle

NextQuad == CallFacets /\ UNCHANGED <<mainVars, newBoxVars, kiteVars>>

SpecQuad == InitQuad /\ [][NextQuad]_vars

-----------------------------------------------------------------------------
(* SpecNewBox: NewBox applied to two quads.  Each quad is the              *)
(* parallelogram on the origin and two points of a grid in space (x and y  *)
(* up to MaxC, z in {0, 1}), so that its first facet takes every           *)
(* orientation, the vertical and the degenerate ones included.             *)

MaxC == 1

Grid3 == (0..MaxC) \X (0..MaxC) \X {0, 1}

Pt(p) == <<FromInt(p[1]), FromInt(p[2]), FromInt(p[3])>>

BoxQuads ==
    { << Pt(<<0, 0, 0>>), Pt(p1), Pt(p2),
         Pt(<<p2[1] - p1[1], p2[2] - p1[2], p2[3] - p1[3]>>) >> :
      p1 \in Grid3, p2 \in Grid3 }

NewBoxInit ==
    /\ nbBot \in BoxQuads
    /\ nbTop \in BoxQuads
    /\ nbRes = <<>>

CallNewBox ==
    /\ nbRes = <<>>
    /\ nbRes' = NewBox(nbBot, nbTop)
    /\ UNCHANGED <<nbBot, nbTop>>

InitNewBox == NewBoxInit /\ MainIdle /\ QuadIdle /\ KiteIdle

NextNewBox == CallNewBox /\ UNCHANGED <<mainVars, quadVars, kiteVars>>

SpecNewBox == InitNewBox /\ [][NextNewBox]_vars

-----------------------------------------------------------------------------
(* SpecKite: Kite called twice with the same position, rotation and        *)
(* reflect flag and two insets.  The positions are those of the table,     *)
(* the rotations the multiples of 30 degrees up to MaxRotStep steps either *)
(* way, the insets 0.03 and the multiples of 1/InsetDen up to              *)
(* MaxInsetNum/InsetDen.                                                   *)

MaxRotStep == 8
MaxInsetNum == 4
InsetDen == 2

Locs == {kites[k].pos : k \in 1..NumKites}
Rots == {30 * k : k \in (-MaxRotStep)..MaxRotStep}
Insets == {inset} \cup {Num(n, 0, InsetDen) : n \in 0..MaxInsetNum}

\* What one call of Kite does: the quads it builds and what NewBox makes
\* of them.
KiteCall(loc, rotationDegrees, ins, refl) ==
    [quads |-> KiteQuads(loc, rotationDegrees, ins, refl),
     res |-> Kite(loc, rotationDegrees, ins, refl)]

KiteInit ==
    /\ kLoc \in Locs
    /\ kRot \in Rots
    /\ kRefl \in BOOLEAN
    /\ kInsA \in Insets
    /\ kInsB \in Insets
    /\ kA = <<>>
    /\ kB = <<>>

CallKiteA ==
    /\ kA = <<>>
    /\ kA' = KiteCall(kLoc, kRot, kInsA, kRefl)
    /\ UNCHANGED <<kLoc, kRot, kRefl, kInsA, kInsB, kB>>

CallKiteB ==
    /\ kA # <<>>
    /\ kB = <<>>
    /\ kB' = KiteCall(kLoc, kRot, kInsB, kRefl)
    /\ UNCHANGED <<kLoc, kRot, kRefl, kInsA, kInsB, kA>>

InitKite == KiteInit /\ MainIdle /\ QuadIdle /\ NewBoxIdle

NextKite ==
    \/ CallKiteA /\ UNCHANGED <<mainVars, quadVars, newBoxVars>>
    \/ CallKiteB /\ UNCHANGED <<mainVars, quadVars, newBoxVars>>

SpecKite == InitKite /\ [][NextKite]_vars

-----------------------------------------------------------------------------
(* Vocabulary of the properties.                                           *)

Dot3(p, q) == Add(Add(Mul(p[1], q[1]), Mul(p[2], q[2])), Mul(p[3], q[3]))

PointAdd(p, q) == <<Add(p[1], q[1]), Add(p[2], q[2]), Add(p[3], q[3])>>

PointTimes(n, p) == <<Mul(FromInt(n), p[1]), Mul(FromInt(n), p[2]), Mul(FromInt(n), p[3])>>

QuadSum(q) == PointAdd(PointAdd(q[1], q[2]), PointAdd(q[3], q[4]))

BoxVertices(bx) == {bx[q][k] : q \in 1..2, k \in 1..4}

\* Eight times the vector from the mean of the 8 vertices of bx to p.
FromInterior(bx, p) == PointSub(PointTimes(8, p), PointAdd(QuadSum(bx[1]), QuadSum(bx[2])))

\* The normal of f points away from the inside of bx.
Outward(bx, f) ==
    /\ ~Normal(f).nan
    /\ \A k \in 1..3 : Sgn(Dot3(Normal(f).n, FromInterior(bx, f[k]))) > 0

\* The facets of F whose three vertices all have the height z.
AtHeight(F, z) == {k \in 1..Len(F) : \A e \in 1..3 : F[k][e][3] = z}

\* The height of the top quad of a Box built by Kite.
TopZ(bx) == bx[2][1][3]

\* C1: every one of the 12 facets of a Box that Kite returned to render has
\* its right-hand-rule normal pointing away from the mean of the 8 vertices;
\* the two facets in the plane z = 0 have a normal with negative z, the two
\* in the plane of the top quad a normal with positive z, and the other
\* eight a normal with z = 0.
C1_NormalsOutward ==
    stl # <<>> =>
        LET F == BoxFacets(stl)
            lo == AtHeight(F, Zero)
            hi == AtHeight(F, TopZ(stl))
        IN  /\ Len(F) = 12
            /\ \A k \in 1..12 : Outward(stl, F[k])
            /\ Cardinality(lo) = 2 /\ Cardinality(hi) = 2
            /\ \A k \in lo : Sgn(Normal(F[k]).n[3]) < 0
            /\ \A k \in hi : Sgn(Normal(F[k]).n[3]) > 0
            /\ \A k \in (1..12) \ (lo \cup hi) : Sgn(Normal(F[k]).n[3]) = 0

C1_Witness ==
    pc = "facets" /\ fi = 12 /\ reflect /\ name = <<"kite-inset", 5>>

\* The 36 directed edges of the facets F, facet by facet.
DirectedEdges(F) ==
    [n \in 1..(3 * Len(F)) |->
        LET k == ((n - 1) \div 3) + 1
            e == ((n - 1) % 3) + 1
        IN  <<F[k][e], F[k][(e % 3) + 1]>>]

Occurrences(E, x) == Cardinality({n \in DOMAIN E : E[n] = x})

\* C2: the 12 facets of a Box that Kite returned form a closed, consistently
\* oriented surface: each directed edge occurs in exactly one facet, its
\* reverse in exactly one facet, there are 18 undirected edges, and only
\* the 8 vertices of the two quads are used.
C2_Watertight ==
    stl # <<>> =>
        LET F == BoxFacets(stl)
            E == DirectedEdges(F)
        IN  /\ Len(F) = 12
            /\ Cardinality(BoxVertices(stl)) = 8
            /\ \A n \in DOMAIN E :
                 /\ E[n][1] # E[n][2]
                 /\ {E[n][1], E[n][2]} \subseteq BoxVertices(stl)
                 /\ Occurrences(E, E[n]) = 1
                 /\ Occurrences(E, <<E[n][2], E[n][1]>>) = 1
            /\ Cardinality({{E[n][1], E[n][2]} : n \in DOMAIN E}) = 18

C2_Witness ==
    pc = "facets" /\ fi = 12 /\ ~reflect /\ name = <<"kite", 6>>

\* C4: no run of main ends through log.Fatal: every pair of quads that Kite
\* passes to NewBox, for the 8 placements, both insets and both values of
\* the flag, passes the orientation check.
C4_NeverFatal == pc # "fatal"

C4_Witness == pc = "done" /\ i = NumKites /\ reflect

ExpectedName(n) == <<IF n % 2 = 1 THEN "kite" ELSE "kite-inset", (n - 1) \div 2>>

\* Block n of the output: the header of the n-th solid and 12 facet records.
BlockOK(blk, n) ==
    /\ Len(blk) = 13
    /\ blk[1] = [kind |-> "solid", name |-> ExpectedName(n)]
    /\ \A k \in 2..13 : blk[k].kind = "facet"

FacetRecords ==
    {<<n, k>> \in (1..Len(stdout)) \X (1..13) :
        k <= Len(stdout[n]) /\ stdout[n][k].kind = "facet"}

\* C5: a run of main, with either value of the flag, prints the blocks
\* kite0, kite-inset0, ..., kite7, kite-inset7 in this order, each a header
\* and 12 facet records, and ends having printed 16 blocks and 192 facet
\* records, after which it takes no further step.
C5_SixteenSolids ==
    /\ [](Len(stdout) <= 16 /\ \A n \in 1..Len(stdout) : BlockOK(stdout[n], n))
    /\ <>[](/\ pc = "done"
            /\ Len(stdout) = 16
            /\ Cardinality(FacetRecords) = 192
            /\ ~ENABLED Next)

C5_Witness ==
    pc = "done" /\ Len(stdout) = 16 /\ \A n \in 1..16 : Len(stdout[n]) = 13

\* The split of the quad <<p0, p1, p2, p3>> by the fixed rule.
Split(p0, p1, p2, p3) == << <<p0, p1, p2>>, <<p2, p3, p0>> >>

\* The quads among the side quads whose vertices include p and q.
SidesOnEdge(bx, p, q) ==
    {j \in 1..4 : {p, q} \subseteq {SideQuads(bx)[j][k] : k \in 1..4}}

\* C8 as stated: with bottom the first and top the second quad of the Box,
\* the facets 4+2i and 5+2i of Box.Facets() are the split of the quad
\* (bottom[i], bottom[i+1], top[i+1], top[i]), indices mod 4, for i in 0..3.
C8_SideQuadsAsStated ==
    stl # <<>> =>
        LET bottom == stl[1]
            top == stl[2]
            F == BoxFacets(stl)
        IN  \A j \in 0..3 :
              <<F[5 + 2 * j], F[6 + 2 * j]>> =
                 Split(bottom[j + 1], bottom[((j + 1) % 4) + 1],
                       top[((j + 1) % 4) + 1], top[j + 1])

\* C8 amended: the facets 4+2i and 5+2i of Box.Facets() are the split of the
\* quad (top[(4-i) mod 4], top[(3-i) mod 4], bottom[(i+1) mod 4], bottom[i]),
\* and each edge bottom[i]-bottom[i+1] lies on exactly one side quad.
C8_SideQuads ==
    stl # <<>> =>
        LET bottom == stl[1]
            top == stl[2]
            F == BoxFacets(stl)
        IN  /\ Len(F) = 12
            /\ \A j \in 0..3 :
                 /\ <<F[5 + 2 * j], F[6 + 2 * j]>> =
                      Split(top[((4 - j) % 4) + 1], top[((3 - j) % 4) + 1],
                            bottom[((j + 1) % 4) + 1], bottom[j + 1])
                 /\ SidesOnEdge(stl, bottom[j + 1], bottom[((j + 1) % 4) + 1]) = {j + 1}

C8_Witness ==
    pc = "facets" /\ fi = 10 /\ reflect /\ name = <<"kite", 4>>

\* The sign of the z component of the cross product of the first triangle
\* (v0, v1, v2) of the quad q, and whether that triangle is degenerate.
FirstCross(q) ==
    <<Sub(Mul(Sub(q[2][2], q[1][2]), Sub(q[3][3], q[1][3])),
          Mul(Sub(q[2][3], q[1][3]), Sub(q[3][2], q[1][2]))),
      Sub(Mul(Sub(q[2][3], q[1][3]), Sub(q[3][1], q[1][1])),
          Mul(Sub(q[2][1], q[1][1]), Sub(q[3][3], q[1][3]))),
      Sub(Mul(Sub(q[2][1], q[1][1]), Sub(q[3][2], q[1][2])),
          Mul(Sub(q[2][2], q[1][2]), Sub(q[3][1], q[1][1])))>>

Degenerate(q) == FirstCross(q) = <<Zero, Zero, Zero>>

\* C3: for quads whose first triangle is not degenerate, NewBox ends the
\* process exactly when the z of the bottom quad's first normal is not
\* negative or the z of the top quad's first normal is not positive (zero
\* counts as a violation), it reports the bottom quad when the bottom quad is
\* wrong, and otherwise it returns the Box <<bottom, top>>.
C3_NewBoxCheck ==
    (nbRes # <<>> /\ ~Degenerate(nbBot) /\ ~Degenerate(nbTop)) =>
        LET zb == Sgn(FirstCross(nbBot)[3])
            zt == Sgn(FirstCross(nbTop)[3])
        IN  /\ (nbRes.fatal # "") <=> (zb >= 0 \/ zt <= 0)
            /\ zb >= 0 => nbRes.fatal = "bad bottom normal"
            /\ (zb < 0 /\ zt <= 0) => nbRes.fatal = "bad top normal"
            /\ nbRes.fatal = "" => nbRes.box = <<nbBot, nbTop>>

\* Both quads wrong, the bottom one with a vertical first triangle.
C3_Witness ==
    /\ nbRes # <<>>
    /\ ~Degenerate(nbBot) /\ ~Degenerate(nbTop)
    /\ Sgn(FirstCross(nbBot)[3]) = 0
    /\ Sgn(FirstCross(nbTop)[3]) < 0
    /\ nbRes.fatal = "bad bottom normal"

-----------------------------------------------------------------------------
(* Plane geometry of the four grid points of qsrc.                         *)

Orient(p, q, r) == (q[1] - p[1]) * (r[2] - p[2]) - (q[2] - p[2]) * (r[1] - p[1])

Min(m, n) == IF m < n THEN m ELSE n
Max(m, n) == IF m < n THEN n ELSE m

\* r lies on the closed segment pq.
OnSegment(p, q, r) ==
    /\ Orient(p, q, r) = 0
    /\ Min(p[1], q[1]) <= r[1] /\ r[1] <= Max(p[1], q[1])
    /\ Min(p[2], q[2]) <= r[2] /\ r[2] <= Max(p[2], q[2])

\* The closed segments p1q1 and p2q2 have a point in common.
Meet(p1, q1, p2, q2) ==
    \/ /\ SgnInt(Orient(p1, q1, p2)) * SgnInt(Orient(p1, q1, q2)) < 0
       /\ SgnInt(Orient(p2, q2, p1)) * SgnInt(Orient(p2, q2, q1)) < 0
    \/ OnSegment(p1, q1, p2) \/ OnSegment(p1, q1, q2)
    \/ OnSegment(p2, q2, p1) \/ OnSegment(p2, q2, q1)

\* The edges pq and qr have only q in common.
Hinge(p, q, r) == p # q /\ q # r /\ ~OnSegment(q, r, p) /\ ~OnSegment(p, q, r)

\* No three of the four points lie on a line.
NoThreeCollinear(v) ==
    /\ Orient(v[1], v[2], v[3]) # 0 /\ Orient(v[2], v[3], v[4]) # 0
    /\ Orient(v[3], v[4], v[1]) # 0 /\ Orient(v[4], v[1], v[2]) # 0

\* The four points, in their order, are the vertices of a simple polygon:
\* consecutive edges meet in their common vertex alone, opposite edges do
\* not meet.
Simple(v) ==
    /\ Hinge(v[1], v[2], v[3]) /\ Hinge(v[2], v[3], v[4])
    /\ Hinge(v[3], v[4], v[1]) /\ Hinge(v[4], v[1], v[2])
    /\ ~Meet(v[1], v[2], v[3], v[4])
    /\ ~Meet(v[2], v[3], v[4], v[1])

\* v1 and v3 lie strictly on opposite sides of the line through v0 and v2:
\* the interior angles at v1 and v3 are less than 180 degrees.
DiagonalInside(v) ==
    SgnInt(Orient(v[1], v[3], v[2])) * SgnInt(Orient(v[1], v[3], v[4])) < 0

\* Facets() returned the triangles (v0,v1,v2) and (v2,v3,v0) of the quad, and
\* their cross products have a positive dot product.
FacetsAgree ==
    LET q == QuadOf(qsrc)
    IN  /\ qf = << <<q[1], q[2], q[3]>>, <<q[3], q[4], q[1]>> >>
        /\ Sgn(Dot3(Normal(qf[1]).n, Normal(qf[2]).n)) > 0

\* C6 as stated: for every coplanar simple quad, Facets() returns the
\* triangles (v0,v1,v2) and (v2,v3,v0) and their normals point the same way.
\* (Stated here for the quads with no three vertices on a line, where no
\* triangle is degenerate.)
C6_AllSimpleQuads ==
    (qf # <<>> /\ Simple(qsrc.pts) /\ NoThreeCollinear(qsrc.pts)) => FacetsAgree

\* C6 amended: the same for every coplanar simple quad whose vertices v1 and
\* v3 lie strictly on opposite sides of the line through v0 and v2.
C6_FacetsParallel ==
    (qf # <<>> /\ Simple(qsrc.pts) /\ DiagonalInside(qsrc.pts)) => FacetsAgree

\* A quad that is not convex (reflex at v0) and has its diagonal inside.
C6_Witness ==
    /\ qf # <<>>
    /\ Simple(qsrc.pts)
    /\ DiagonalInside(qsrc.pts)
    /\ SgnInt(Orient(qsrc.pts[4], qsrc.pts[1], qsrc.pts[2]))
         # SgnInt(Orient(qsrc.pts[1], qsrc.pts[2], qsrc.pts[3]))
    /\ qsrc.plane = "xz"

-----------------------------------------------------------------------------
(* Properties of Kite.                                                     *)

\* The quads of one call: bottom at z = 0 in the order of the transformed
\* vertices, top at z = (0.2 + inset) * unit with top[i] above
\* bottom[(4 - i) mod 4], and NewBox returned them as the Box.
QuadsAsBuilt(call, ins) ==
    LET bottom == call.quads[1]
        top == call.quads[2]
        v == KiteVertices(kLoc, kRot, ins, kRefl)
    IN  /\ call.res.fatal = ""
        /\ call.res.box = <<bottom, top>>
        /\ \A k \in 1..4 :
             /\ bottom[k] = <<v[k][1], v[k][2], Zero>>
             /\ top[k][3] = Mul(Add(<<2, 0, 10>>, ins), FromInt(12))
             /\ top[k][1] = bottom[((5 - k) % 4) + 1][1]
             /\ top[k][2] = bottom[((5 - k) % 4) + 1][2]

\* C9: in every call of Kite the bottom quad holds the transformed vertices
\* in forward order at z = 0 and the top quad holds the same positions in
\* the reverse cyclic order at z = (0.2 + inset) * unit, top[i] above
\* bottom[(4 - i) mod 4].
C9_QuadLayout ==
    /\ kA # <<>> => QuadsAsBuilt(kA, kInsA)
    /\ kB # <<>> => QuadsAsBuilt(kB, kInsB)

C9_Witness ==
    kB # <<>> /\ kInsB = inset /\ kRefl /\ kRot = -60 /\ kLoc = kites[7].pos

AbsNum(x) == IF Sgn(x) < 0 THEN Neg(x) ELSE x

\* Twice the area of the footprint of the quad q (the shoelace formula).
Area2(q) ==
    AbsNum(Add(Add(Sub(Mul(q[1][1], q[2][2]), Mul(q[2][1], q[1][2])),
                   Sub(Mul(q[2][1], q[3][2]), Mul(q[3][1], q[2][2]))),
               Add(Sub(Mul(q[3][1], q[4][2]), Mul(q[4][1], q[3][2])),
                   Sub(Mul(q[4][1], q[1][2]), Mul(q[1][1], q[4][2])))))

Shrinks == Less(Area2(kB.quads[1]), Area2(kA.quads[1]))

\* C10 as stated: for any insets 0 <= a < b the footprint that Kite builds
\* with inset b has a strictly smaller area than the one it builds with a.
C10_AnyInsets ==
    (kA # <<>> /\ kB # <<>> /\ Less(kInsA, kInsB)) => Shrinks

\* C10 amended: the same for insets 0 <= a < b <= 1.
C10_DeflateShrinks ==
    (kA # <<>> /\ kB # <<>> /\ Less(kInsA, kInsB) /\ ~Less(One, kInsB)) => Shrinks

C10_Witness ==
    /\ kA # <<>> /\ kB # <<>>
    /\ kInsA = inset /\ kInsB = One
    /\ kRefl /\ kRot = 120

====
